---- MODULE Spec2Model ----
(***************************************************************************)
(* Model of HardwareDiagnosticTool/hardware_info.py: the unit formatter    *)
(* get_size, the five inspectors and the renderer main.                    *)
(*                                                                         *)
(* Byte counts are arbitrary-precision naturals, kept as little-endian     *)
(* sequences of base-1024 limbs. A Python float is kept as a mantissa of   *)
(* limbs and a count of divisions by 1024 (value = m / 1024^e), the        *)
(* mantissa rounded to 53 significant bits as IEEE-754 doubles are.        *)
(* Strings that the program formats are sequences of one-character         *)
(* strings; f-string keys are tuples of their parts.                       *)
(***************************************************************************)
EXTENDS Integers, Sequences, FiniteSets, TLC

VARIABLES
    pc,           \* position of the run in main()
    out,          \* the events printed to standard output, in order
    calls,        \* the inspectors invoked so far, in order
    exitCode,     \* the process exit status, -1 while running
    raised,       \* the inspector whose failure propagated, "" if none
    clock,        \* wall-clock seconds elapsed since main() started
    host,         \* what the machine answers: partitions, GPU facility, cores
    system_info, cpu_info, memory_info, disk_info, gpu_info,
    sizeArg,      \* argument of a direct call of get_size
    sizeRet       \* [done, val]: its return value

vars == <<pc, out, calls, exitCode, raised, clock, host,
          system_info, cpu_info, memory_info, disk_info, gpu_info,
          sizeArg, sizeRet>>

mainVars == <<pc, out, calls, exitCode, raised, clock, host,
              system_info, cpu_info, memory_info, disk_info, gpu_info>>

----------------------------------------------------------------------------
(* Bounds of the model *)

NumLimbs == 7          \* byte counts range below 1024^NumLimbs
MaxPartitions == 2     \* partitions the enumeration returns
MaxGPUs == 2           \* GPUs the facility reports
MaxCores == 2          \* logical cores
MaxElapsed == 1        \* seconds since psutil last read the CPU times

----------------------------------------------------------------------------
(* Program constants *)

Base == 1024
Units == <<"", "K", "M", "G", "T", "P">>
Decimals == 2
MantissaBits == 53
SampleInterval == 1

None == <<>>

----------------------------------------------------------------------------
(* Arithmetic on limb sequences *)

RECURSIVE Pow(_, _)
Pow(x, n) == IF n = 0 THEN 1 ELSE x * Pow(x, n - 1)

RECURSIVE Log2(_)
Log2(n) == IF n <= 1 THEN 0 ELSE 1 + Log2(n \div 2)

LimbBits == Log2(Base)

Max(a, b) == IF a >= b THEN a ELSE b

LimbAt(s, i) == IF i \in 1..Len(s) THEN s[i] ELSE 0

Bit(s, i) == (LimbAt(s, (i \div LimbBits) + 1) \div Pow(2, i % LimbBits)) % 2

BitLen(s) ==
    LET used == {i \in 1..Len(s) : s[i] # 0}
        top  == CHOOSE i \in used : \A j \in used : j <= i
    IN  IF used = {} THEN 0 ELSE (top - 1) * LimbBits + Log2(s[top]) + 1

RECURSIVE AddAt(_, _, _)
AddAt(s, i, c) ==
    IF c = 0 THEN s
    ELSE IF i > Len(s) THEN Append(s, c)
    ELSE LET t == s[i] + c
         IN  AddAt([s EXCEPT ![i] = t % Base], i + 1, t \div Base)

RECURSIVE MulSmall(_, _, _)
MulSmall(s, f, c) ==
    IF s = <<>> THEN <<c>>
    ELSE LET t == Head(s) * f + c
         IN  <<t % Base>> \o MulSmall(Tail(s), f, t \div Base)

(* s with its d low bits cleared *)
ClearLow(s, d) ==
    [i \in 1..Len(s) |->
        IF i * LimbBits <= d THEN 0
        ELSE IF (i - 1) * LimbBits < d
             THEN s[i] - (s[i] % Pow(2, d - (i - 1) * LimbBits))
             ELSE s[i]]

(* round-half-even: the kept part goes up on more than half, or on exactly
   half when its last kept digit is odd *)
RoundsUp(guard, sticky, odd) == guard /\ (sticky \/ odd)

(* an integer rounded to the nearest double *)
RoundToDouble(s) ==
    LET d == BitLen(s) - MantissaBits
    IN  IF d <= 0 THEN s
        ELSE LET guard  == Bit(s, d - 1) = 1
                 sticky == \E j \in 0..(d - 2) : Bit(s, j) = 1
                 odd    == Bit(s, d) = 1
                 kept   == ClearLow(s, d)
             IN  IF RoundsUp(guard, sticky, odd)
                 THEN AddAt(kept, (d \div LimbBits) + 1, Pow(2, d % LimbBits))
                 ELSE kept

----------------------------------------------------------------------------
(* Strings *)

DigitChars == <<"0", "1", "2", "3", "4", "5", "6", "7", "8", "9">>

RECURSIVE Digits(_)
Digits(n) ==
    IF n < 10 THEN <<DigitChars[n + 1]>>
    ELSE Digits(n \div 10) \o <<DigitChars[(n % 10) + 1]>>

RECURSIVE PadDigits(_, _)
PadDigits(n, w) ==
    IF w = 0 THEN <<>>
    ELSE PadDigits(n \div 10, w - 1) \o <<DigitChars[(n % 10) + 1]>>

UnitChars(u) == IF u = "" THEN <<>> ELSE <<u>>

----------------------------------------------------------------------------
(* get_size *)

Scale == Pow(10, Decimals)

IntValue(s) == [m |-> s, e |-> 0]

(* bytes /= 1024: true division gives the nearest double of the quotient;
   dividing a double by a power of two is exact *)
TrueDivBase(v) == [m |-> RoundToDouble(v.m), e |-> v.e + 1]

(* bytes < 1024 *)
LessThanBase(v) == \A i \in (v.e + 2)..Len(v.m) : v.m[i] = 0

(* f"{bytes:.2f}" of a value below 1024: the exact binary value rounded
   half-even to two decimals *)
Format2f(v) ==
    LET whole  == LimbAt(v.m, v.e + 1)
        frac   == SubSeq(v.m, 1, v.e)
        prod   == MulSmall(frac, Scale, 0)
        q      == prod[v.e + 1]
        guard  == v.e >= 1 /\ prod[v.e] >= Base \div 2
        sticky == v.e >= 1 /\ (prod[v.e] % (Base \div 2) # 0
                               \/ \E j \in 1..(v.e - 1) : prod[j] # 0)
        c      == IF RoundsUp(guard, sticky, q % 2 = 1) THEN q + 1 ELSE q
        w      == IF c = Scale THEN whole + 1 ELSE whole
    IN  Digits(w) \o <<".">> \o PadDigits(c % Scale, Decimals)

RECURSIVE SizeLoop(_, _)
SizeLoop(v, k) ==
    IF k > Len(Units) THEN None
    ELSE IF LessThanBase(v) THEN Format2f(v) \o UnitChars(Units[k]) \o <<"B">>
    ELSE SizeLoop(TrueDivBase(v), k + 1)

get_size(bytes) == SizeLoop(IntValue(bytes), 1)

----------------------------------------------------------------------------
(* Python dicts: insertion-ordered sequences of [k, v] entries *)

HasKey(d, k) == \E i \in 1..Len(d) : d[i].k = k

DictGet(d, k) == d[CHOOSE i \in 1..Len(d) : d[i].k = k].v

(* d[k] = v: a key already present keeps its place and takes the new value *)
DictSet(d, k, v) ==
    IF HasKey(d, k)
    THEN [i \in 1..Len(d) |-> IF d[i].k = k THEN [k |-> k, v |-> v] ELSE d[i]]
    ELSE Append(d, [k |-> k, v |-> v])

----------------------------------------------------------------------------
(* What the machine can answer *)

(* the natural number whose low limbs are s *)
Limbs(s) == [i \in 1..NumLimbs |-> LimbAt(s, i)]

Devices == {"sda1", "sdb1"}

DiskSizes == {Limbs(<<0, 0, 0, 1>>)}

MemSizes == {Limbs(<<0, 0, 0, 8>>), Limbs(<<0, 0, 0, 0, 0, 0, 1>>)}

(* exceptions a call into psutil or GPUtil can raise, all subclasses of
   Exception *)
Failures == {"ImportError", "RuntimeError"}

(* a partition psutil.disk_partitions() lists; readable says whether
   psutil.disk_usage(mountpoint) answers or raises *)
Partitions ==
    [device : Devices, fstype : {"ext4"}, readable : BOOLEAN, total : DiskSizes]

RECURSIVE SeqsUpTo(_, _)
SeqsUpTo(S, n) ==
    IF n = 0 THEN {<<>>}
    ELSE LET shorter == SeqsUpTo(S, n - 1)
         IN  shorter \cup {Append(q, x) : q \in {r \in shorter : Len(r) = n - 1}, x \in S}

PartitionLists == SeqsUpTo(Partitions, MaxPartitions)

(* a GPU GPUtil.getGPUs() lists; fail names the exception reading its
   attributes raises (gpu.load * 100 of a load that is no number), "" if
   none *)
GPUs == [name : {"gpu"}, fail : {"", "RuntimeError"}]

(* import: outcome of `import GPUtil`; enum: outcome of GPUtil.getGPUs() *)
GpuHosts ==
    [import : Failures \cup {"ok"}, enum : Failures \cup {"ok"},
     gpus : SeqsUpTo(GPUs, MaxGPUs)]

(* the facility's answers matter only as far as the code gets to ask *)
GpuFacilities ==
    {g \in GpuHosts :
        /\ g.import # "ok" => g.enum = "ok" /\ g.gpus = <<>>
        /\ g.enum # "ok" => g.gpus = <<>>}

(* fault: the read that raised, "" while every read has answered *)
NoHost ==
    [partitions |-> <<>>, gpu |-> <<>>, cores |-> 0, elapsed |-> 0, fault |-> ""]

----------------------------------------------------------------------------
(* The inspectors *)

get_system_info ==
    << [k |-> "OS", v |-> "Linux"], [k |-> "OS Version", v |-> "version"],
       [k |-> "Machine", v |-> "x86_64"], [k |-> "Processor", v |-> "cpu"],
       [k |-> "Hostname", v |-> "node"] >>

(* psutil.cpu_percent(interval): with an interval it sleeps for it and
   compares the CPU times before and after; without one it returns at once
   and compares against the times of the last call or of the module import,
   read `elapsed` seconds ago *)
cpu_percent(interval, elapsed) ==
    IF interval > 0
    THEN [blocked |-> interval, window |-> interval]
    ELSE [blocked |-> 0, window |-> elapsed]

RECURSIVE AddCores(_, _, _, _)
AddCores(info, i, n, sample) ==
    IF i >= n THEN info
    ELSE AddCores(DictSet(info, <<"Core", i, "Usage">>, sample), i + 1, n, sample)

get_cpu_info(cores, hasFreq, elapsed) ==
    LET total   == cpu_percent(0, elapsed)
        percore == cpu_percent(SampleInterval, elapsed)
        freq    == IF hasFreq THEN "Mhz" ELSE "N/A"
        base    == << [k |-> <<"Physical Cores">>, v |-> cores],
                      [k |-> <<"Total Cores">>, v |-> cores],
                      [k |-> <<"Max Frequency">>, v |-> freq],
                      [k |-> <<"Current Frequency">>, v |-> freq],
                      [k |-> <<"CPU Usage">>, v |-> total] >>
    IN  [info    |-> AddCores(base, 0, cores, percore),
         blocked |-> total.blocked + percore.blocked]

get_memory_info(total, swap) ==
    << [k |-> "Total Memory", v |-> get_size(total)],
       [k |-> "Available Memory", v |-> get_size(total)],
       [k |-> "Used Memory", v |-> get_size(Limbs(<<>>))],
       [k |-> "Memory Usage", v |-> "percent"],
       [k |-> "Total Swap", v |-> get_size(swap)],
       [k |-> "Free Swap", v |-> get_size(swap)],
       [k |-> "Used Swap", v |-> get_size(Limbs(<<>>))],
       [k |-> "Swap Usage", v |-> "percent"] >>

DiskKey(partition) == <<"Device", partition.device>>

DiskEntry(partition, i) ==
    << [k |-> "Mountpoint", v |-> <<"/mnt", i>>],
       [k |-> "File System", v |-> <<partition.fstype>>],
       [k |-> "Total Size", v |-> get_size(partition.total)],
       [k |-> "Used", v |-> get_size(Limbs(<<>>))],
       [k |-> "Free", v |-> get_size(partition.total)],
       [k |-> "Usage", v |-> <<"percent">>] >>

RECURSIVE DiskLoop(_, _, _)
DiskLoop(partitions, i, info) ==
    IF i > Len(partitions) THEN info
    ELSE IF ~partitions[i].readable THEN DiskLoop(partitions, i + 1, info)
    ELSE DiskLoop(partitions, i + 1,
                  DictSet(info, DiskKey(partitions[i]), DiskEntry(partitions[i], i)))

get_disk_info(partitions) == DiskLoop(partitions, 1, <<>>)

GpuKey(i) == <<"GPU", i>>

StatusKey == <<"Status">>

ErrorKey == <<"Error">>

StatusMessage ==
    <<"GPU information unavailable - GPUtil module not installed or supported">>

ErrorMessage(e) == <<"Failed to get GPU information: ", e>>

GpuEntry(gpu, i) ==
    << [k |-> "Name", v |-> gpu.name], [k |-> "ID", v |-> i] >>

(* the body of the try block: [exc, ret], exc the exception that left it *)
RECURSIVE GpuLoop(_, _, _)
GpuLoop(gpus, i, info) ==
    IF i > Len(gpus) THEN [exc |-> "", ret |-> info]
    ELSE IF gpus[i].fail # "" THEN [exc |-> gpus[i].fail, ret |-> <<>>]
    ELSE GpuLoop(gpus, i + 1, DictSet(info, GpuKey(i - 1), GpuEntry(gpus[i], i - 1)))

GpuTry(g) ==
    IF g.import # "ok" THEN [exc |-> g.import, ret |-> <<>>]
    ELSE IF g.enum # "ok" THEN [exc |-> g.enum, ret |-> <<>>]
    ELSE GpuLoop(g.gpus, 1, <<>>)

(* variant: `except Exception` placed ahead of `except ImportError`, so
   that a missing module is reported as an error *)
try_get_gpu_info_broad_first(g) ==
    LET t == GpuTry(g)
    IN  IF t.exc = "" THEN t.ret
        ELSE <<[k |-> ErrorKey, v |-> ErrorMessage(t.exc)]>>

try_get_gpu_info(g) ==
    LET t == GpuTry(g)
    IN  IF t.exc = "" THEN t.ret
        ELSE IF t.exc = "ImportError" THEN <<[k |-> StatusKey, v |-> StatusMessage]>>
        ELSE <<[k |-> ErrorKey, v |-> ErrorMessage(t.exc)]>>

----------------------------------------------------------------------------
(* main *)

Sections == <<"System", "CPU", "Memory", "Disk", "GPU">>

Event(ev, sec, key, body) == [ev |-> ev, sec |-> sec, key |-> key, body |-> body]

(* print(f"\n{key}:") and print(tabulate(...)) for every entry of a nested
   grouping, in the dict's order *)
RECURSIVE SubTables(_, _, _)
SubTables(sec, info, i) ==
    IF i > Len(info) THEN <<>>
    ELSE << Event("subheading", sec, info[i].k, <<>>),
            Event("table", sec, info[i].k, info[i].v) >>
         \o SubTables(sec, info, i + 1)

(* variant: the test probes for the Status key alone *)
IsSentinelStatusOnly(info) == Len(info) = 1 /\ HasKey(info, StatusKey)

(* the test of line 156: exactly one entry, keyed Status or Error *)
IsSentinel(info) ==
    Len(info) = 1 /\ (HasKey(info, StatusKey) \/ HasKey(info, ErrorKey))

RenderGpu(info) ==
    IF IsSentinel(info)
    THEN LET key == IF HasKey(info, StatusKey) THEN StatusKey ELSE ErrorKey
         IN  <<Event("line", "GPU", key, DictGet(info, key))>>
    ELSE SubTables("GPU", info, 1)

Init ==
    /\ pc = "title"
    /\ out = <<>>
    /\ calls = <<>>
    /\ exitCode = -1
    /\ raised = ""
    /\ clock = 0
    /\ host = NoHost
    /\ system_info = <<>> /\ cpu_info = <<>> /\ memory_info = <<>>
    /\ disk_info = <<>> /\ gpu_info = <<>>
    /\ sizeArg = Limbs(<<>>)
    /\ sizeRet = [done |-> FALSE, val |-> None]

(* variant: main wrapped in a handler that swallows the exception and lets
   the process end with status 0 *)
PropagateSwallowed(who) ==
    /\ pc' = "crashed"
    /\ raised' = who
    /\ exitCode' = 0

(* an exception leaves main: traceback, exit status 1 *)
Propagate(who) ==
    /\ pc' = "crashed"
    /\ raised' = who
    /\ exitCode' = 1

PrintTitle ==
    /\ pc = "title"
    /\ out' = Append(out, Event("title", "", <<>>, <<>>))
    /\ pc' = "timestamp"
    /\ UNCHANGED <<calls, exitCode, raised, clock, host, system_info, cpu_info,
                   memory_info, disk_info, gpu_info, sizeArg, sizeRet>>

PrintTimestamp ==
    /\ pc = "timestamp"
    /\ out' = Append(out, Event("timestamp", "", <<>>, <<>>))
    /\ pc' = "system"
    /\ UNCHANGED <<calls, exitCode, raised, clock, host, system_info, cpu_info,
                   memory_info, disk_info, gpu_info, sizeArg, sizeRet>>

(* variant: the System section printed as soon as it is gathered, before
   the other inspectors run *)
CallSystemInfoThenShow ==
    /\ pc = "system"
    /\ calls' = Append(calls, "system")
    /\ \E ok \in BOOLEAN :
          IF ok
          THEN /\ system_info' = get_system_info
               /\ out' = out \o << Event("heading", "System", <<>>, <<>>),
                                   Event("table", "System", <<>>, get_system_info) >>
               /\ pc' = "cpu"
               /\ UNCHANGED <<raised, exitCode, host>>
          ELSE /\ Propagate("system")
               /\ host' = [host EXCEPT !.fault = "system"]
               /\ UNCHANGED <<system_info, out>>
    /\ UNCHANGED <<clock, cpu_info, memory_info, disk_info, gpu_info,
                   sizeArg, sizeRet>>

CallSystemInfo ==
    /\ pc = "system"
    /\ calls' = Append(calls, "system")
    /\ \E ok \in BOOLEAN :
          IF ok
          THEN /\ system_info' = get_system_info
               /\ pc' = "cpu"
               /\ UNCHANGED <<raised, exitCode, host>>
          ELSE /\ Propagate("system")
               /\ host' = [host EXCEPT !.fault = "system"]
               /\ UNCHANGED system_info
    /\ UNCHANGED <<out, clock, cpu_info, memory_info, disk_info, gpu_info,
                   sizeArg, sizeRet>>

CallCpuInfo ==
    /\ pc = "cpu"
    /\ calls' = Append(calls, "cpu")
    /\ \E ok \in BOOLEAN, cores \in 1..MaxCores, hasFreq \in BOOLEAN,
          elapsed \in 0..MaxElapsed :
          IF ok
          THEN LET r == get_cpu_info(cores, hasFreq, elapsed)
               IN  /\ cpu_info' = r.info
                   /\ clock' = clock + r.blocked
                   /\ host' = [host EXCEPT !.cores = cores, !.elapsed = elapsed]
                   /\ pc' = "memory"
                   /\ UNCHANGED <<raised, exitCode>>
          ELSE /\ Propagate("cpu")
               /\ host' = [host EXCEPT !.fault = "cpu"]
               /\ UNCHANGED <<cpu_info, clock>>
    /\ UNCHANGED <<out, system_info, memory_info, disk_info, gpu_info,
                   sizeArg, sizeRet>>

CallMemoryInfo ==
    /\ pc = "memory"
    /\ calls' = Append(calls, "memory")
    /\ \E ok \in BOOLEAN, total \in MemSizes :
          IF ok
          THEN /\ memory_info' = get_memory_info(total, total)
               /\ pc' = "disk"
               /\ UNCHANGED <<raised, exitCode, host>>
          ELSE /\ Propagate("memory")
               /\ host' = [host EXCEPT !.fault = "memory"]
               /\ UNCHANGED memory_info
    /\ UNCHANGED <<out, clock, system_info, cpu_info, disk_info, gpu_info,
                   sizeArg, sizeRet>>

(* psutil.disk_partitions() is called outside the try block *)
CallDiskInfo ==
    /\ pc = "disk"
    /\ calls' = Append(calls, "disk")
    /\ \E enumerated \in BOOLEAN, partitions \in PartitionLists :
          IF enumerated
          THEN /\ disk_info' = get_disk_info(partitions)
               /\ host' = [host EXCEPT !.partitions = partitions]
               /\ pc' = "gpu"
               /\ UNCHANGED <<raised, exitCode>>
          ELSE /\ partitions = <<>>
               /\ Propagate("disk")
               /\ host' = [host EXCEPT !.fault = "disk"]
               /\ UNCHANGED disk_info
    /\ UNCHANGED <<out, clock, system_info, cpu_info, memory_info, gpu_info,
                   sizeArg, sizeRet>>

CallGpuInfo ==
    /\ pc = "gpu"
    /\ calls' = Append(calls, "gpu")
    /\ \E g \in GpuFacilities :
          /\ gpu_info' = try_get_gpu_info(g)
          /\ host' = [host EXCEPT !.gpu = g]
    /\ pc' = "show_system"
    /\ UNCHANGED <<out, exitCode, raised, clock, system_info, cpu_info,
                   memory_info, disk_info, sizeArg, sizeRet>>

ShowTable(at, sec, info, next) ==
    /\ pc = at
    /\ out' = out \o << Event("heading", sec, <<>>, <<>>),
                        Event("table", sec, <<>>, info) >>
    /\ pc' = next
    /\ UNCHANGED <<calls, exitCode, raised, clock, host, system_info, cpu_info,
                   memory_info, disk_info, gpu_info, sizeArg, sizeRet>>

ShowSystem == ShowTable("show_system", "System", system_info, "show_cpu")

(* variant: the CPU table printed under the Memory heading *)
ShowCpuAsMemory == ShowTable("show_cpu", "Memory", cpu_info, "show_memory")

ShowCpu == ShowTable("show_cpu", "CPU", cpu_info, "show_memory")

ShowMemory == ShowTable("show_memory", "Memory", memory_info, "show_disk")

ShowDisk ==
    /\ pc = "show_disk"
    /\ out' = out \o <<Event("heading", "Disk", <<>>, <<>>)>>
                  \o SubTables("Disk", disk_info, 1)
    /\ pc' = "show_gpu"
    /\ UNCHANGED <<calls, exitCode, raised, clock, host, system_info, cpu_info,
                   memory_info, disk_info, gpu_info, sizeArg, sizeRet>>

ShowGpu ==
    /\ pc = "show_gpu"
    /\ out' = out \o <<Event("heading", "GPU", <<>>, <<>>)>> \o RenderGpu(gpu_info)
    /\ pc' = "return"
    /\ UNCHANGED <<calls, exitCode, raised, clock, host, system_info, cpu_info,
                   memory_info, disk_info, gpu_info, sizeArg, sizeRet>>

(* main returns and the interpreter exits with status 0 *)
Exit ==
    /\ pc = "return"
    /\ pc' = "done"
    /\ exitCode' = 0
    /\ UNCHANGED <<out, calls, raised, clock, host, system_info, cpu_info,
                   memory_info, disk_info, gpu_info, sizeArg, sizeRet>>

Next ==
    \/ PrintTitle
    \/ PrintTimestamp
    \/ CallSystemInfo
    \/ CallCpuInfo
    \/ CallMemoryInfo
    \/ CallDiskInfo
    \/ CallGpuInfo
    \/ ShowSystem
    \/ ShowCpu
    \/ ShowMemory
    \/ ShowDisk
    \/ ShowGpu
    \/ Exit

Spec == Init /\ [][Next]_vars

----------------------------------------------------------------------------
(* Direct calls of get_size on byte counts drawn from a bounded set *)

LimbVals == {0, 1, 8, 128, 512, 1023}

TopVals == {0, 1}

ByteCounts ==
    {b \in [1..NumLimbs -> LimbVals] : b[NumLimbs] \in TopVals}

Idle ==
    /\ pc = "idle" /\ out = <<>> /\ calls = <<>> /\ exitCode = -1
    /\ raised = "" /\ clock = 0 /\ host = <<>>
    /\ system_info = <<>> /\ cpu_info = <<>> /\ memory_info = <<>>
    /\ disk_info = <<>> /\ gpu_info = <<>>

InitSize ==
    /\ Idle
    /\ sizeArg \in ByteCounts
    /\ sizeRet = [done |-> FALSE, val |-> None]

CallGetSize ==
    /\ ~sizeRet.done
    /\ sizeRet' = [done |-> TRUE, val |-> get_size(sizeArg)]
    /\ UNCHANGED <<sizeArg, mainVars>>

NextSize == CallGetSize

SpecSize == InitSize /\ [][NextSize]_vars

----------------------------------------------------------------------------
(* Vocabulary of the properties *)

Range(s) == {s[i] : i \in 1..Len(s)}

(* the inspector was called and returned to main *)
Returned(who) == who \in Range(calls) /\ raised # who

Keys(d) == [i \in 1..Len(d) |-> d[i].k]

RECURSIVE SelectEv(_, _)
SelectEv(s, ev) ==
    IF s = <<>> THEN <<>>
    ELSE IF Head(s).ev = ev THEN <<Head(s)>> \o SelectEv(Tail(s), ev)
    ELSE SelectEv(Tail(s), ev)

(* the events of a section, its heading excluded *)
RECURSIVE SectionBody(_, _)
SectionBody(s, sec) ==
    IF s = <<>> THEN <<>>
    ELSE IF Head(s).sec = sec /\ Head(s).ev # "heading"
         THEN <<Head(s)>> \o SectionBody(Tail(s), sec)
         ELSE SectionBody(Tail(s), sec)

Headings(s) ==
    LET h == SelectEv(s, "heading")
    IN  [i \in 1..Len(h) |-> h[i].sec]

IsPrefix(a, b) == Len(a) <= Len(b) /\ SubSeq(b, 1, Len(a)) = a

(* comparison and difference of naturals kept as limb sequences *)
RECURSIVE CmpFrom(_, _, _)
CmpFrom(a, b, i) ==
    IF i = 0 THEN 0
    ELSE IF LimbAt(a, i) > LimbAt(b, i) THEN 1
    ELSE IF LimbAt(a, i) < LimbAt(b, i) THEN -1
    ELSE CmpFrom(a, b, i - 1)

Cmp(a, b) == CmpFrom(a, b, Max(Len(a), Len(b)))

RECURSIVE SubFrom(_, _, _, _)
SubFrom(a, b, i, borrow) ==
    IF i > Max(Len(a), Len(b)) THEN <<>>
    ELSE LET t == LimbAt(a, i) - LimbAt(b, i) - borrow
         IN  IF t < 0 THEN <<t + Base>> \o SubFrom(a, b, i + 1, 1)
             ELSE <<t>> \o SubFrom(a, b, i + 1, 0)

AbsDiff(a, b) == IF Cmp(a, b) >= 0 THEN SubFrom(a, b, 1, 0) ELSE SubFrom(b, a, 1, 0)

RECURSIVE ToLimbs(_)
ToLimbs(n) == IF n < Base THEN <<n>> ELSE <<n % Base>> \o ToLimbs(n \div Base)

(* s * 1024^k *)
Shift(s, k) == [i \in 1..k |-> 0] \o s

----------------------------------------------------------------------------
(* get_size: properties checked under SpecSize *)

(* the least k with b / 1024^k < 1024 *)
UnitIndex(b) ==
    CHOOSE k \in 0..NumLimbs :
        /\ \A i \in (k + 2)..NumLimbs : b[i] = 0
        /\ \A j \in 0..(k - 1) : \E i \in (j + 2)..NumLimbs : b[i] # 0

(* b / 1024^k, exactly, with two decimals and the k-th unit *)
ExactSize(b) ==
    LET k == UnitIndex(b)
    IN  Format2f([m |-> b, e |-> k]) \o UnitChars(Units[k + 1]) \o <<"B">>

(* C1: for every non-negative byte count b, get_size(b) is the string
   "<value><unit>B", unit the k-th of '', K, M, G, T, P for the least k with
   b / 1024^k < 1024 and value b / 1024^k with two decimals; get_size(0) =
   "0.00B", get_size(1024) = "1.00KB", get_size(1536) = "1.50KB" and
   get_size(1024**3) = "1.00GB". *)
C1_GetSizeContract ==
    sizeRet.done =>
        /\ UnitIndex(sizeArg) < Len(Units)
        /\ sizeRet.val = ExactSize(sizeArg)
        /\ sizeArg = Limbs(<<0>>) => sizeRet.val = <<"0", ".", "0", "0", "B">>
        /\ sizeArg = Limbs(<<0, 1>>) => sizeRet.val = <<"1", ".", "0", "0", "K", "B">>
        /\ sizeArg = Limbs(<<512, 1>>) => sizeRet.val = <<"1", ".", "5", "0", "K", "B">>
        /\ sizeArg = Limbs(<<0, 0, 0, 1>>)
              => sizeRet.val = <<"1", ".", "0", "0", "G", "B">>

DigitVal(c) == CHOOSE d \in 0..9 : DigitChars[d + 1] = c

IsDigit(c) == \E d \in 1..Len(DigitChars) : DigitChars[d] = c

RECURSIVE ParseDigits(_)
ParseDigits(t) ==
    IF t = <<>> THEN 0
    ELSE 10 * ParseDigits(SubSeq(t, 1, Len(t) - 1)) + DigitVal(t[Len(t)])

(* the text with its "<unit>B" suffix stripped, reparsed as the number
   num / den, and the index k of the unit *)
ParseSize(str) ==
    LET n     == Len(str)
        named == n >= 2 /\ ~IsDigit(str[n - 1])
        k     == IF named THEN (CHOOSE j \in 1..Len(Units) : Units[j] = str[n - 1]) - 1
                 ELSE 0
        text  == SubSeq(str, 1, IF named THEN n - 2 ELSE n - 1)
        dot   == CHOOSE i \in 1..Len(text) : text[i] = "."
        whole == SubSeq(text, 1, dot - 1)
        frac  == SubSeq(text, dot + 1, Len(text))
    IN  [num |-> ParseDigits(whole \o frac), den |-> Pow(10, Len(frac)), k |-> k]

(* |num / den * 1024^k - b| <= 0.005 * 1024^k, both sides times 200 * den *)
WithinTolerance(p, b) ==
    LET lhs   == Shift(ToLimbs(2 * Scale * p.num), p.k)
        rhs   == MulSmall(b, 2 * Scale * p.den, 0)
        bound == Shift(ToLimbs(p.den), p.k)
    IN  Cmp(AbsDiff(lhs, rhs), bound) <= 0

(* C2: for every non-negative byte count b, the output of get_size(b) with
   its unit suffix stripped, reparsed as a number v and multiplied by 1024^k
   (k the index of the suffix) is within rounding tolerance of b:
   |v * 1024^k - b| <= 0.005 * 1024^k. *)
C2_RoundTrip ==
    sizeRet.done =>
        /\ sizeRet.val # None
        /\ WithinTolerance(ParseSize(sizeRet.val), sizeArg)

----------------------------------------------------------------------------
(* The inspectors and main: properties checked under Spec *)

Readable(partitions) == {i \in 1..Len(partitions) : partitions[i].readable}

(* C3: of N partitions of which M have a usage query that succeeds,
   get_disk_info returns exactly M entries, one per readable partition;
   unreadable partitions are skipped without raising and without affecting
   the entries of the others. *)
C3_OneEntryPerReadable ==
    Returned("disk") =>
        /\ Len(disk_info) = Cardinality(Readable(host.partitions))
        /\ \A i \in Readable(host.partitions) :
              /\ HasKey(disk_info, DiskKey(host.partitions[i]))
              /\ DictGet(disk_info, DiskKey(host.partitions[i]))
                    = DiskEntry(host.partitions[i], i)

(* the exception GPUtil raises once imported: that of getGPUs(), else that
   of the first GPU whose attributes cannot be read, else "" *)
RuntimeFailure(g) ==
    IF g.enum # "ok" THEN g.enum
    ELSE LET bad == {i \in 1..Len(g.gpus) : g.gpus[i].fail # ""}
         IN  IF bad = {} THEN ""
             ELSE g.gpus[CHOOSE i \in bad : \A j \in bad : i <= j].fail

IsUnavailable(info) == Len(info) = 1 /\ info[1].k = StatusKey

IsError(info) == Len(info) = 1 /\ info[1].k = ErrorKey

IsSuccess(info) == \A i \in 1..Len(info) : info[i].k = GpuKey(i - 1)

(* C4: try_get_gpu_info never raises and returns exactly one of three
   distinguishable results: one entry keyed "Status" when GPUtil cannot be
   imported; one entry keyed "Error" carrying the failure description, and
   no per-GPU entry, when GPUtil is present and enumerating or reading a GPU
   raises a non-import failure; G entries keyed "GPU 0" .. "GPU G-1" when
   GPUtil is present and reports G GPUs without failure. *)
C4_GpuThreeOutcomes ==
    /\ raised # "gpu"
    /\ Returned("gpu") =>
        LET g == host.gpu
            f == RuntimeFailure(g)
        IN  /\ Cardinality({n \in 1..3 :
                    \/ n = 1 /\ IsUnavailable(gpu_info)
                    \/ n = 2 /\ IsError(gpu_info)
                    \/ n = 3 /\ IsSuccess(gpu_info)}) = 1
            /\ g.import = "ImportError" => IsUnavailable(gpu_info)
            /\ g.import = "ok" /\ f \notin {"", "ImportError"} =>
                  /\ IsError(gpu_info)
                  /\ gpu_info[1].v = ErrorMessage(f)
            /\ g.import = "ok" /\ f = "" =>
                  /\ IsSuccess(gpu_info)
                  /\ Len(gpu_info) = Len(g.gpus)

C4_Witness ==
    /\ Returned("gpu")
    /\ host.gpu.import = "ok"
    /\ Len(host.gpu.gpus) = MaxGPUs
    /\ host.gpu.gpus[1].fail = ""
    /\ host.gpu.gpus[MaxGPUs].fail = "RuntimeError"
    /\ IsError(gpu_info)

(* the events of the GPU section say what was rendered *)
IsLine(e, info) == e.ev = "line" /\ e.key = info[1].k /\ e.body = info[1].v

IsSubTable(body, i, info) ==
    /\ body[2 * i - 1].ev = "subheading"
    /\ body[2 * i - 1].key = info[i].k
    /\ body[2 * i].ev = "table"
    /\ body[2 * i].key = info[i].k
    /\ body[2 * i].body = info[i].v

(* C5: for every result of try_get_gpu_info, main prints the single status
   or error message line, and no sub-table, exactly when the outcome was
   'unavailable' or 'error', and exactly one headed sub-table per GPU entry
   exactly when the outcome was 'success' with G GPUs, for every G >= 0. *)
C5_RendererDispatch ==
    pc \in {"return", "done"} =>
        LET body == SectionBody(out, "GPU")
            message == IsUnavailable(gpu_info) \/ IsError(gpu_info)
        IN  /\ message <=> (Len(body) = 1 /\ body[1].ev = "line")
            /\ message => IsLine(body[1], gpu_info)
            /\ ~message <=> (IsSuccess(gpu_info) /\ SelectEv(body, "line") = <<>>)
            /\ ~message =>
                  /\ Len(body) = 2 * Len(gpu_info)
                  /\ \A i \in 1..Len(gpu_info) : IsSubTable(body, i, gpu_info)

C5_Witness ==
    /\ pc = "done"
    /\ IsSuccess(gpu_info)
    /\ Len(gpu_info) = MaxGPUs
    /\ Len(SelectEv(SectionBody(out, "GPU"), "table")) = MaxGPUs

SecIndex(sec) == CHOOSE i \in 1..Len(Sections) : Sections[i] = sec

(* C6: in every run of main that completes the output is, in this order,
   the title, the timestamp, then the System, CPU, Memory, Disk and GPU
   sections; each heading is printed exactly once and no section is printed
   before an earlier one. *)
C6_SectionOrder ==
    /\ IsPrefix(Headings(out), Sections)
    /\ \A i \in 1..Len(out) :
          /\ out[i].ev = "title" <=> i = 1
          /\ out[i].ev = "timestamp" <=> i = 2
          /\ i >= 3 =>
                /\ out[i].sec \in Range(Sections)
                /\ out[i].ev = "heading" \/ out[i - 1].sec = out[i].sec
                /\ i > 3 => SecIndex(out[i - 1].sec) <= SecIndex(out[i].sec)
    /\ pc = "done" => Headings(out) = Sections

C6_Witness ==
    /\ pc = "done"
    /\ Len(SectionBody(out, "Disk")) = 2 * MaxPartitions
    /\ Len(SectionBody(out, "GPU")) = 1

(* what the exit status tells, `fatal` being the reads whose failure ends
   the run *)
ExitContract(fatal) ==
    /\ pc = "done" <=> exitCode = 0
    /\ exitCode \in {-1, 0, 1}
    /\ exitCode = 1 <=> host.fault \in fatal
    /\ host.fault \in fatal =>
          /\ pc = "crashed"
          /\ raised = host.fault
          /\ calls[Len(calls)] = host.fault
          /\ Cardinality({i \in 1..Len(calls) : calls[i] = host.fault}) = 1
    /\ exitCode = 1 => ~Returned("disk") /\ "gpu" \notin Range(calls)
    /\ Returned("disk") /\ Readable(host.partitions) # DOMAIN host.partitions
          => raised = ""
    /\ Returned("gpu") /\ (host.gpu.import # "ok" \/ RuntimeFailure(host.gpu) # "")
          => raised = ""

Mandatory == {"system", "cpu", "memory"}

(* C7 as stated: a run exits 0 whenever it completes and non-zero only on
   an unhandled failure of a system, CPU or memory read, which propagates
   without retry; no failure originating in the disk or GPU inspection
   causes a non-zero exit. *)
C7_OnlyMandatoryReadsFatal ==
    /\ ExitContract(Mandatory)
    /\ raised \notin {"disk", "gpu"}

(* C7 as amended: a run exits 0 whenever it completes and non-zero only on
   an unhandled failure of a system, CPU or memory read or of the partition
   enumeration psutil.disk_partitions(), each of which propagates without
   retry; no failure of a per-partition usage query and no exception of the
   GPU inspection causes a non-zero exit. *)
C7_ExitCodes ==
    /\ ExitContract(Mandatory \cup {"disk"})
    /\ raised = "disk" => disk_info = <<>> /\ host.partitions = <<>>
    /\ raised # "gpu"

C7_Witness ==
    /\ pc = "crashed"
    /\ host.fault = "disk"
    /\ exitCode = 1
    /\ calls = <<"system", "cpu", "memory", "disk">>

(* C8: when GPUtil is present and enumeration fails at runtime, the failure
   is surfaced as a single descriptive error line in the GPU section, the
   System, CPU, Memory and Disk sections are still printed and the run exits
   0; with exactly one readable partition and no GPU support the report has
   exactly one Disk sub-section, the GPU section shows the unavailability
   message and the run exits 0. *)
C8_GpuFailureSurfaced ==
    /\ Returned("gpu") => pc # "crashed"
    /\ pc = "done" =>
        LET g    == host.gpu
            body == SectionBody(out, "GPU")
        IN  /\ g.import = "ok" /\ g.enum # "ok" =>
                  /\ Len(body) = 1
                  /\ body[1].ev = "line"
                  /\ body[1].key = ErrorKey
                  /\ body[1].body = ErrorMessage(g.enum)
                  /\ Headings(out) = Sections
                  /\ exitCode = 0
            /\ /\ Len(host.partitions) = 1
               /\ Readable(host.partitions) = {1}
               /\ g.import = "ImportError"
               => /\ Len(SelectEv(SectionBody(out, "Disk"), "subheading")) = 1
                  /\ Len(body) = 1
                  /\ body[1].ev = "line"
                  /\ body[1].body = StatusMessage
                  /\ exitCode = 0

IsUsageKey(k) == k = <<"CPU Usage">> \/ (Len(k) = 3 /\ k[1] = "Core")

(* C9: in get_cpu_info the aggregate utilization and every per-core
   utilization are sampled over the same fixed interval of 1 second, the
   caller blocked for it; the per-core entries number the logical core
   count, and the blocking sample is the only suspension point of a run. *)
C9_SameSamplingInterval ==
    /\ ~Returned("cpu") => clock = 0
    /\ Returned("cpu") =>
          /\ \A i \in 1..Len(cpu_info) :
                IsUsageKey(cpu_info[i].k) =>
                    /\ cpu_info[i].v.window = SampleInterval
                    /\ cpu_info[i].v.blocked = SampleInterval
          /\ Cardinality({i \in 1..Len(cpu_info) : Len(cpu_info[i].k) = 3})
                = host.cores
          /\ clock >= SampleInterval

Inspectors == <<"system", "cpu", "memory", "disk", "gpu">>

(* C10: in every run of main the five inspectors are invoked once each, in
   the order system, CPU, memory, disk, GPU, and all five have returned
   before any section heading or table is printed; if the system, CPU or
   memory inspector raises, the output consists of the title and timestamp
   lines only. *)
C10_GatherBeforeRender ==
    /\ IsPrefix(calls, Inspectors)
    /\ pc = "done" => calls = Inspectors
    /\ Len(out) > 2 => calls = Inspectors /\ raised = ""
    /\ \A i \in 1..Len(out) :
          out[i].ev \notin {"title", "timestamp"} =>
              \A who \in Range(Inspectors) : Returned(who)
    /\ raised \in Mandatory =>
          /\ Len(out) = 2
          /\ out[1].ev = "title"
          /\ out[2].ev = "timestamp"

C10_Witness ==
    /\ pc = "crashed"
    /\ raised = "memory"
    /\ calls = <<"system", "cpu", "memory">>
    /\ Len(out) = 2

====
